---- MODULE Spec2Model ----
(***************************************************************************)
(* Model of cirq/testing/circuit_compare.py: the phase-cancellation solver *)
(* _cancel_qubit_phase and the equivalence check built on it,              *)
(* assert_circuits_with_terminal_measurements_are_equivalent.              *)
(*                                                                         *)
(* A complex matrix entry is kept in polar form [mag, ang]: mag is an      *)
(* ordinal magnitude level (0 is exactly zero) and ang is the phase in     *)
(* units of 2*pi/NumPhases, 0 <= ang < NumPhases.  Multiplying by a unit   *)
(* phase adds angles modulo NumPhases; np.angle maps ang to the            *)
(* representative in (-pi, pi].  The linear system prob holds integers:   *)
(* 0/1 indicators and angle differences in the same unit.                  *)
(***************************************************************************)
EXTENDS Integers, Sequences, FiniteSets, TLC

\* Resolution of the phase circle: angles are multiples of 2*pi/NumPhases.
NumPhases == 4
\* Largest number of qubits of a circuit (matrices are 2^nq x 2^nq).
MaxQubits == 2

VARIABLES
    nq,         \* number of qubits, len(order)
    actual,     \* the circuit under test (or NoCircuit for a direct solver call)
    reference,  \* the reference circuit
    matrix1,    \* m1: the matrix the solver mutates
    matrix2,    \* m2
    ks,         \* the DOF sequence handed to the solver (argument qubits)
    m1_in,      \* value of m1 when the current solver call started
    m2_in,      \* value of m2 when the current solver call started
    prob,       \* the linear system of the current call
    used,       \* rows already chosen as pivots
    col,        \* next column of the Gram-Schmidt loop (1-based)
    pivots,     \* chosen_row of every processed column, in order
    calls,      \* number of solver calls started
    pc          \* position in the program

vars == <<nq, actual, reference, matrix1, matrix2, ks, m1_in, m2_in, prob,
          used, col, pivots, calls, pc>>

Phases == 0 .. (NumPhases - 1)
QubitCounts == 1 .. MaxQubits

RECURSIVE Pow2(_)
Pow2(k) == IF k = 0 THEN 1 ELSE 2 * Pow2(k - 1)

\* row & (1 << k)
BitSet(row, k) == (row \div Pow2(k)) % 2 = 1

Min2(a, b) == IF a <= b THEN a ELSE b
SetMin(S) == CHOOSE x \in S : \A y \in S : x <= y

Zero == [mag |-> 0, ang |-> 0]

\* z * exp(1j * t) for an integer angle t (any sign)
PhaseMul(z, t) == IF z.mag = 0 THEN z ELSE [mag |-> z.mag, ang |-> (z.ang + t) % NumPhases]

\* np.angle(z): the representative in (-pi, pi]; np.angle(0) is 0
Angle(z) == IF z.mag = 0 THEN 0
            ELSE IF 2 * z.ang > NumPhases THEN z.ang - NumPhases ELSE z.ang

\* max(range(n), key=...) returns the first index with the largest key
DominantCol(m1, m2, row) ==
    LET key(c) == Min2(m1[row][c].mag, m2[row][c].mag)
        C == DOMAIN m1[row]
    IN CHOOSE c \in C : \A d \in C : key(d) <= key(c) /\ (d < c => key(d) < key(c))

\* the difference with the sign of the second angle slipped
PhaseDiffSignSlip(m1, m2, row) ==
    LET c == DominantCol(m1, m2, row)
    IN Angle(m1[row][c]) + Angle(m2[row][c])

PhaseDiff(m1, m2, row) ==
    LET c == DominantCol(m1, m2, row)
    IN Angle(m1[row][c]) - Angle(m2[row][c])

\* prob after the two set-up loops: indicator columns, then the target column
InitProb(m1, m2, qubits) ==
    [row \in DOMAIN m1 |->
        [i \in 1 .. (Len(qubits) + 1) |->
            IF i <= Len(qubits)
            THEN (IF BitSet(row, qubits[i]) THEN 0 ELSE 1)
            ELSE PhaseDiff(m1, m2, row)]]

\* rows the generator of min(...) ranges over
Candidates(p, u, c) == {row \in DOMAIN p : row \notin u /\ p[row][c] # 0}

\* the largest candidate row instead of the smallest
ChosenRowLargest(p, u, c) ==
    CHOOSE x \in Candidates(p, u, c) : \A y \in Candidates(p, u, c) : y <= x

ChosenRow(p, u, c) == SetMin(Candidates(p, u, c))

\* x / d for the values the elimination meets
Div(x, d) == IF d < 0 THEN (0 - x) \div (0 - d) ELSE x \div d

\* one iteration of the Gram-Schmidt loop body after chosen_row is known
Eliminate(p, chosen, c) ==
    LET norm == [i \in DOMAIN p[chosen] |-> Div(p[chosen][i], p[chosen][c])]
    IN [row \in DOMAIN p |->
          IF row = chosen THEN norm
          ELSE [i \in DOMAIN p[row] |-> p[row][i] - p[row][c] * norm[i]]]

RECURSIVE GramSchmidtFrom(_, _, _, _)
GramSchmidtFrom(p, u, c, len) ==
    IF c > len THEN [raised |-> FALSE, prob |-> p]
    ELSE IF Candidates(p, u, c) = {} THEN [raised |-> TRUE, prob |-> p]
    ELSE LET chosen == ChosenRow(p, u, c)
         IN GramSchmidtFrom(Eliminate(p, chosen, c), u \cup {chosen}, c + 1, len)

\* min in place of max: the first row with the smallest entry
ExtractRowSmallest(p, c) ==
    CHOOSE r \in DOMAIN p :
        \A s \in DOMAIN p : p[r][c] <= p[s][c] /\ (s < r => p[r][c] < p[s][c])

\* max(range(n), key=lambda r: prob[r, col]): first row with the largest entry
ExtractRow(p, c) ==
    CHOOSE r \in DOMAIN p :
        \A s \in DOMAIN p : p[s][c] <= p[r][c] /\ (s < r => p[s][c] < p[r][c])

\* the angle whose exponential is `adjust`
Theta(p, c) == p[ExtractRow(p, c)][Len(p[ExtractRow(p, c)])]

\* the correction applied to the rows whose bit is clear
ApplyOneClearRows(m1, p, qubits, c) ==
    LET adjust == Theta(p, c)
    IN [row \in DOMAIN m1 |->
          IF ~BitSet(row, qubits[c])
          THEN [d \in DOMAIN m1[row] |-> PhaseMul(m1[row][d], adjust)]
          ELSE m1[row]]

\* one iteration of the extraction loop
ApplyOne(m1, p, qubits, c) ==
    LET adjust == Theta(p, c)
    IN [row \in DOMAIN m1 |->
          IF BitSet(row, qubits[c])
          THEN [d \in DOMAIN m1[row] |-> PhaseMul(m1[row][d], adjust)]
          ELSE m1[row]]

\* the loop started at the second DOF, as if the first were always the
\* out-of-range one
RECURSIVE ApplyFromSecond(_, _, _, _)
ApplyFromSecond(m1, p, qubits, c) ==
    IF c > Len(qubits) THEN m1
    ELSE IF c = 1 THEN ApplyFromSecond(m1, p, qubits, 2)
    ELSE ApplyFromSecond(ApplyOne(m1, p, qubits, c), p, qubits, c + 1)

RECURSIVE ApplyFrom(_, _, _, _)
ApplyFrom(m1, p, qubits, c) ==
    IF c > Len(qubits) THEN m1
    ELSE ApplyFrom(ApplyOne(m1, p, qubits, c), p, qubits, c + 1)

\* the whole of _cancel_qubit_phase: the new m1, or raised (min() of an empty
\* sequence is a ValueError, before anything is written to m1)
CancelQubitPhase(m1, m2, qubits) ==
    LET gs == GramSchmidtFrom(InitProb(m1, m2, qubits), {}, 1, Len(qubits))
    IN IF gs.raised THEN [raised |-> TRUE, m1 |-> m1]
       ELSE [raised |-> FALSE, m1 |-> ApplyFrom(m1, gs.prob, qubits, 1)]

\* linalg.allclose_up_to_global_phase, exact on the phase grid
AllcloseUpToGlobalPhase(a, b) ==
    \E g \in Phases :
        \A r \in DOMAIN a : \A c \in DOMAIN a[r] : a[r][c] = PhaseMul(b[r][c], g)

----------------------------------------------------------------------------
(* Circuits.  A circuit is a base unitary followed by diagonal gates and   *)
(* measurements: a global phase, a Z-axis rotation per qubit, and a phase  *)
(* on the single outcome in which every measured qubit reads 1.            *)

Qubits(n) == 0 .. (n - 1)
Rows(n) == 0 .. (Pow2(n) - 1)

\* the index in the ascending order: the reversal forgotten
OrderIndexAscending(n, q) == q

\* order = sorted(qubits)[::-1]; order.index(q)
OrderIndex(n, q) == n - 1 - q

\* the bit of a row index that carries qubit q in an extracted matrix: qubits
\* are laid out most-significant first in ascending order
BitOfQubit(n, q) == n - 1 - q

BaseIds == {1, 2}

\* base 1: a cyclic-shift permutation matrix with a different phase per row;
\* base 2: a dense matrix with a dominant diagonal
BaseMatrix(b, n) ==
    [r \in Rows(n) |-> [c \in Rows(n) |->
        IF b = 1
        THEN (IF c = (r + 1) % Pow2(n) THEN [mag |-> 1, ang |-> r % NumPhases] ELSE Zero)
        ELSE [mag |-> IF c = r THEN 2 ELSE 1, ang |-> (r * c + 1) % NumPhases]]]

RECURSIVE SumOver(_, _)
SumOver(f, S) == IF S = {} THEN 0
                 ELSE LET x == CHOOSE y \in S : TRUE
                      IN f[x] + SumOver(f, S \ {x})

\* phase the diagonal gates of circuit c put on row r
RowPhase(c, n, r) ==
    c.glob
    + SumOver([q \in Qubits(n) |-> IF BitSet(r, BitOfQubit(n, q)) THEN c.zrot[q] ELSE 0],
              Qubits(n))
    + (IF \A q \in c.measured : BitSet(r, BitOfQubit(n, q)) THEN c.cphase ELSE 0)

\* circuit.to_unitary_matrix(qubits_that_should_be_present=qubits)
ToUnitaryMatrix(c, n) ==
    LET B == BaseMatrix(c.base, n)
    IN [r \in Rows(n) |->
          LET ph == RowPhase(c, n, r)
          IN [d \in Rows(n) |-> PhaseMul(B[r][d], ph)]]

Circuit(b, g, z, e, M, t) ==
    [base |-> b, glob |-> g, zrot |-> z, cphase |-> e, measured |-> M, terminal |-> t]

NoRotation(n) == [q \in Qubits(n) |-> 0]

\* circuits without diagonal gates
PlainCircuits(n) ==
    {Circuit(b, 0, NoRotation(n), 0, M, t) :
        b \in BaseIds, M \in SUBSET Qubits(n), t \in BOOLEAN}

\* circuit r followed by a global phase and Z rotations, or by one phase on
\* the outcome in which all measured qubits read 1
Relabelings(r, n) ==
    {Circuit(r.base, g, z, 0, r.measured, r.terminal) :
        g \in Phases, z \in [Qubits(n) -> Phases]}
    \cup {Circuit(r.base, 0, NoRotation(n), e, r.measured, r.terminal) :
        e \in IF Cardinality(r.measured) < 2 THEN {0} ELSE Phases}

\* circuit r with other measurements and a global phase
Misuses(r, n) ==
    {Circuit(r.base, g, NoRotation(n), 0, M, t) :
        g \in Phases, M \in SUBSET Qubits(n), t \in BOOLEAN}

NoCircuit == [base |-> 0]
NoMatrix == << >>

Distinct(s) == \A i, j \in DOMAIN s : i # j => s[i] # s[j]
Range(s) == {s[i] : i \in DOMAIN s}

\* all orders in which a set can be enumerated
Orderings(S) == {s \in [1 .. Cardinality(S) -> S] : Distinct(s)}

----------------------------------------------------------------------------
(* The solver, step by step.                                               *)

\* lines 59-76: set up prob, used
BuildProb ==
    /\ pc = "call"
    /\ prob' = InitProb(matrix1, matrix2, ks)
    /\ used' = {}
    /\ pivots' = << >>
    /\ col' = 1
    /\ pc' = IF Len(ks) = 0 THEN "extract" ELSE "gram_schmidt"
    /\ UNCHANGED <<nq, actual, reference, matrix1, matrix2, ks, m1_in, m2_in, calls>>

\* lines 77-84: one iteration of the column loop
GramSchmidt ==
    /\ pc = "gram_schmidt"
    /\ IF Candidates(prob, used, col) = {}
       THEN /\ pc' = "raised"
            /\ UNCHANGED <<prob, used, pivots, col>>
       ELSE LET chosen == ChosenRow(prob, used, col)
            IN /\ used' = used \cup {chosen}
               /\ pivots' = Append(pivots, chosen)
               /\ prob' = Eliminate(prob, chosen, col)
               /\ col' = col + 1
               /\ pc' = IF col = Len(ks) THEN "extract" ELSE "gram_schmidt"
    /\ UNCHANGED <<nq, actual, reference, matrix1, matrix2, ks, m1_in, m2_in, calls>>

\* lines 86-92: the extraction loop
ExtractApply ==
    /\ pc = "extract"
    /\ matrix1' = ApplyFrom(matrix1, prob, ks, 1)
    /\ pc' = "returned"
    /\ UNCHANGED <<nq, actual, reference, matrix2, ks, m1_in, m2_in, prob, used, col,
                   pivots, calls>>

\* a caller applying the solver again to its own result
CallAgain ==
    /\ pc = "returned"
    /\ calls = 1
    /\ calls' = 2
    /\ m1_in' = matrix1
    /\ m2_in' = matrix2
    /\ pc' = "call"
    /\ UNCHANGED <<nq, actual, reference, matrix1, matrix2, ks, prob, used, col,
                   pivots>>

----------------------------------------------------------------------------
(* The equivalence check.                                                  *)

\* the comparison of the measured sets left out
CheckTerminalOnly ==
    /\ pc = "start"
    /\ pc' = IF actual.terminal /\ reference.terminal
             THEN "checked" ELSE "assertion_error"
    /\ UNCHANGED <<nq, actual, reference, matrix1, matrix2, ks, m1_in, m2_in, prob,
                   used, col, pivots, calls>>

\* lines 98-111: the three assertions
CheckPreconditions ==
    /\ pc = "start"
    /\ pc' = IF actual.terminal /\ reference.terminal
                /\ actual.measured = reference.measured
             THEN "checked" ELSE "assertion_error"
    /\ UNCHANGED <<nq, actual, reference, matrix1, matrix2, ks, m1_in, m2_in, prob,
                   used, col, pivots, calls>>

\* lines 113-118: extract the matrices, build ks, call the solver
BuildMatrices ==
    /\ pc = "checked"
    /\ \E o \in Orderings(actual.measured) :
          ks' = <<nq>> \o [i \in DOMAIN o |-> OrderIndex(nq, o[i])]
    /\ matrix1' = ToUnitaryMatrix(actual, nq)
    /\ matrix2' = ToUnitaryMatrix(reference, nq)
    /\ m1_in' = matrix1'
    /\ m2_in' = matrix2'
    /\ calls' = 1
    /\ pc' = "call"
    /\ UNCHANGED <<nq, actual, reference, prob, used, col, pivots>>

\* lines 153-163: the final assertion
AssertAllclose ==
    /\ pc = "returned"
    /\ pc' = IF AllcloseUpToGlobalPhase(matrix1, matrix2) THEN "accepted" ELSE "rejected"
    /\ UNCHANGED <<nq, actual, reference, matrix1, matrix2, ks, m1_in, m2_in, prob,
                   used, col, pivots, calls>>

Init ==
    /\ nq \in QubitCounts
    /\ reference \in PlainCircuits(nq)
    /\ actual \in Relabelings(reference, nq) \cup Misuses(reference, nq)
    /\ matrix1 = NoMatrix
    /\ matrix2 = NoMatrix
    /\ ks = << >>
    /\ m1_in = NoMatrix
    /\ m2_in = NoMatrix
    /\ prob = << >>
    /\ used = {}
    /\ col = 0
    /\ pivots = << >>
    /\ calls = 0
    /\ pc = "start"

Next ==
    \/ CheckPreconditions
    \/ BuildMatrices
    \/ BuildProb
    \/ GramSchmidt
    \/ ExtractApply
    \/ AssertAllclose

Spec == Init /\ [][Next]_vars

----------------------------------------------------------------------------
(* Direct calls of the solver with an arbitrary DOF sequence.              *)

\* DOF sequences: every order of every set of qubit positions with or without
\* the out-of-range index n, every sequence of at most two indices out of
\* 0, n and n+1, and short sequences repeating their last index
DofSeqs(n) ==
    LET NoRepeat == UNION {Orderings(S) : S \in SUBSET (0 .. n)}
    IN NoRepeat
       \cup UNION {[1 .. l -> {0, n, n + 1}] : l \in 0 .. 2}
       \cup {Append(o, o[Len(o)]) : o \in {d \in NoRepeat : Len(d) \in {1, 2}}}

\* pairs <<m1, m2>>: m2 a base matrix; m1 the first base behind diagonal
\* gates, the second base behind a global phase, or any base matrix
SolverInputs(n) ==
    LET All(b) == Circuit(b, 0, NoRotation(n), 0, Qubits(n), TRUE)
    IN {<<ToUnitaryMatrix(c, n), BaseMatrix(1, n)>> : c \in Relabelings(All(1), n)}
       \cup {<<ToUnitaryMatrix([All(2) EXCEPT !.glob = g], n), BaseMatrix(2, n)>> :
                g \in Phases}
       \cup {<<BaseMatrix(b1, n), BaseMatrix(b2, n)>> : b1 \in BaseIds, b2 \in BaseIds}

SolverInit ==
    /\ nq \in QubitCounts
    /\ actual = NoCircuit
    /\ reference = NoCircuit
    /\ \E in \in SolverInputs(nq) :
          /\ matrix1 = in[1]
          /\ matrix2 = in[2]
    /\ ks \in DofSeqs(nq)
    /\ m1_in = matrix1
    /\ m2_in = matrix2
    /\ prob = << >>
    /\ used = {}
    /\ col = 0
    /\ pivots = << >>
    /\ calls = 1
    /\ pc = "call"

SolverNext ==
    \/ BuildProb
    \/ GramSchmidt
    \/ ExtractApply
    \/ CallAgain

SolverSpec == SolverInit /\ [][SolverNext]_vars

----------------------------------------------------------------------------
(* Properties of the equivalence check (specification Spec).               *)

\* the diagonal gates of the circuit under test touch measured qubits only
OnlyMeasuredPhases(c) == \A q \in Qubits(nq) \ c.measured : c.zrot[q] = 0

GlobalPhaseOnly(c) == c.cphase = 0 /\ \A q \in Qubits(nq) : c.zrot[q] = 0

\* C1: a phase chosen freely per combination of the measured qubits' values
\* (Z rotations on measured qubits, a global phase, or a phase on the outcome
\* in which all measured qubits read 1) never makes the check fail: after the
\* solver the matrices are equal up to one global phase.
C1_PerOutcomeRelabelingAccepted ==
    OnlyMeasuredPhases(actual) =>
        /\ pc \notin {"rejected", "raised"}
        /\ pc = "returned" => AllcloseUpToGlobalPhase(matrix1, matrix2)

\* C2: a Z-axis rotation by any angle right before the measurement of each
\* measured qubit (with any global phase) never makes the check fail: after
\* the solver the matrices are equal up to one global phase.
C2_RotationBeforeMeasurementAccepted ==
    (OnlyMeasuredPhases(actual) /\ actual.cphase = 0) =>
        /\ pc \notin {"rejected", "raised"}
        /\ pc = "returned" => AllcloseUpToGlobalPhase(matrix1, matrix2)

C2_Witness ==
    /\ pc = "accepted"
    /\ Cardinality(actual.measured) >= 2
    /\ \A q \in actual.measured : actual.zrot[q] # 0
    /\ \E q, r \in actual.measured : actual.zrot[q] # actual.zrot[r]
    /\ matrix1 # m1_in

\* C3: a global phase on the whole unitary is accepted for every measured
\* set, and the correction computed for every measured-qubit DOF is trivial
\* (a multiple of 2*pi, so m1 is left as it was) although the recorded angle
\* differences of different rows may differ by 2*pi.
C3_GlobalPhaseAccepted ==
    GlobalPhaseOnly(actual) =>
        /\ pc \notin {"rejected", "raised"}
        /\ pc \in {"extract", "returned", "accepted"} =>
              \A i \in 2 .. Len(ks) : Theta(prob, i) % NumPhases = 0
        /\ pc \in {"returned", "accepted"} => matrix1 = m1_in

C3_Witness ==
    /\ pc = "accepted"
    /\ GlobalPhaseOnly(actual)
    /\ actual.glob # 0
    /\ actual.measured # {}
    /\ \E r, s \in Rows(nq) :
          PhaseDiff(m1_in, matrix2, r) # PhaseDiff(m1_in, matrix2, s)

\* C4: a non-trivial Z rotation on a qubit that is not measured is always
\* detected: the solver does not remove it and the check rejects.
C4_UnmeasuredRotationRejected ==
    (\E q \in Qubits(nq) \ actual.measured : actual.zrot[q] # 0) =>
        /\ pc # "accepted"
        /\ pc = "returned" => ~AllcloseUpToGlobalPhase(matrix1, matrix2)

C4_Witness ==
    /\ pc = "rejected"
    /\ \E q \in Qubits(nq) \ actual.measured : actual.zrot[q] # 0
    /\ \E q \in actual.measured : actual.zrot[q] # 0
    /\ matrix1 # m1_in

Misuse ==
    \/ actual.measured # reference.measured
    \/ ~actual.terminal
    \/ ~reference.terminal

\* C8: circuits whose measured-qubit sets differ, or with a measurement that
\* is not terminal, only ever end in the assertion failure, and no matrix is
\* built and the solver is not called before it.
C8_MisuseFailsBeforeSolver ==
    Misuse =>
        /\ pc \in {"start", "assertion_error"}
        /\ matrix1 = NoMatrix
        /\ matrix2 = NoMatrix
        /\ calls = 0

C8_Witness ==
    /\ pc = "assertion_error"
    /\ actual.measured # reference.measured
    /\ actual.terminal
    /\ reference.terminal

----------------------------------------------------------------------------
(* Properties of the solver (specification SolverSpec).                    *)

\* the DOF sets the equivalence check builds: the sentinel n and distinct
\* qubit positions, in any order
IsCheckDofSet(q, n) == Distinct(q) /\ n \in Range(q) /\ Range(q) \subseteq 0 .. n

RECURSIVE Ascending(_)
Ascending(S) == IF S = {} THEN << >>
                ELSE <<SetMin(S)>> \o Ascending(S \ {SetMin(S)})

\* the sentinel first, then the qubit positions in ascending order
CanonicalDofs(q, n) == <<n>> \o Ascending(Range(q) \ {n})

\* C5: the solver never raises, whatever the DOF sequence.
C5_SolverNeverRaises == pc # "raised"

\* C6: a second call with the same m2 and DOFs on the corrected m1 leaves m1
\* unchanged.
C6_SecondCallChangesNothing ==
    (calls = 2 /\ pc = "returned") => matrix1 = m1_in

\* C7: for a DOF set made of the sentinel and distinct qubit positions, the
\* verdict does not depend on the order of the sequence: every order runs
\* to completion and leaves the corrected m1, hence the verdict, of the
\* sentinel-first ascending order (every order of every such set is an input
\* of this specification).
C7_VerdictIndependentOfDofOrder ==
    IsCheckDofSet(ks, nq) =>
        /\ pc # "raised"
        /\ (pc = "returned" /\ calls = 1) =>
              LET canon == CancelQubitPhase(m1_in, matrix2, CanonicalDofs(ks, nq))
              IN /\ ~canon.raised
                 /\ canon.m1 = matrix1
                 /\ AllcloseUpToGlobalPhase(canon.m1, matrix2)
                      <=> AllcloseUpToGlobalPhase(matrix1, matrix2)

C7_Witness ==
    /\ pc = "returned"
    /\ calls = 1
    /\ IsCheckDofSet(ks, nq)
    /\ Len(ks) >= 3
    /\ ks[1] # nq
    /\ \E i \in DOMAIN ks : ks[i] < nq /\ pivots[i] # Pow2(ks[i])
    /\ matrix1 # m1_in
    /\ AllcloseUpToGlobalPhase(matrix1, matrix2)

\* sum of the corrections th of the DOFs whose bit is set in row r
Factor(th, r) ==
    SumOver([i \in DOMAIN ks |-> IF BitSet(r, ks[i]) THEN th[i] ELSE 0], DOMAIN ks)

\* row r of matrix a is row r of matrix b times the unit phase of angle t
RowScaled(a, b, r, t) == \A c \in DOMAIN a[r] : a[r][c] = PhaseMul(b[r][c], t)

C10_EliminationInvariant ==
    pc \in {"gram_schmidt", "extract", "returned", "raised"} =>
        /\ Len(pivots) = col - 1
        /\ Distinct(pivots)
        /\ used = Range(pivots)
        /\ \A i \in DOMAIN pivots : \A r \in Rows(nq) :
              prob[r][i] = IF r = pivots[i] THEN 1 ELSE 0
        /\ (pc = "gram_schmidt" /\ Candidates(prob, used, col) # {}) =>
              prob[ChosenRow(prob, used, col)][col] \in {1, 0 - 1}
        /\ pc \in {"extract", "returned"} =>
              /\ Len(pivots) = Len(ks)
              /\ \A i \in DOMAIN ks : ExtractRow(prob, i) = pivots[i]
              /\ (IsCheckDofSet(ks, nq) /\ ks[1] = nq) =>
                    /\ pivots[1] = 0
                    /\ \A i \in 2 .. Len(ks) : pivots[i] = Pow2(ks[i])

C10_Witness ==
    /\ pc = "returned"
    /\ IsCheckDofSet(ks, nq)
    /\ ks[1] = nq
    /\ Len(ks) = 3
    /\ pivots = <<0, Pow2(ks[2]), Pow2(ks[3])>>
    /\ matrix1 # m1_in

====
